---- MODULE Spec2Model ----
(***************************************************************************)
(* Model of waf_download.py: the scraper that reads an ERDDAP index page,  *)
(* collects the links to .xml documents, downloads each one into the       *)
(* destination directory and prints its metadata.                          *)
(*                                                                         *)
(* Strings are sequences of one-character strings.  Python's None is the   *)
(* value NoneVal.  A document is a sequence of byte tokens: "e" the bytes  *)
(* of one complete element without children, and "u" a byte that is not    *)
(* valid in the text encoding used to read the file back.  os.path is      *)
(* posixpath.                                                              *)
(***************************************************************************)
EXTENDS Naturals, Integers, Sequences, FiniteSets, TLC

VARIABLES
    pc,          \* position of the program
    erddap,      \* args.erddap, the base address given on the command line
    dest_exists, \* whether the destination directory exists
    url,         \* get_erddap_metadata: url after rstrip
    fed,         \* start tags handed to MyHTMLParser.handle_starttag so far
    xml_files,   \* MyHTMLParser.xml_files
    i,           \* 1-based position of the for loop in parser.xml_files
    resp,        \* the streamed response of the current download
    disk,        \* the files of the destination directory: path -> bytes
    handle,      \* paths of the file objects that are open
    file_name,   \* get_erddap_metadata: os.path.basename of the current link
    body,        \* the body of the last response with status 200
    xml_content, \* print_xml_metadata: the text read back from the file
    ret,         \* values returned by the last completed download_file call
    out,         \* lines printed on standard output
    gets,        \* addresses passed to requests.get, in order
    trace,       \* the steps taken, in order
    snap,        \* the disk as it was when the last requests.get was issued
    error        \* the exception that ended the run, "" when none

vars == <<pc, erddap, dest_exists, url, fed, xml_files, i, resp, disk, handle,
          file_name, body, xml_content, ret, out, gets, trace, snap, error>>

----------------------------------------------------------------------------
(* Bounds *)

\* start tags fed to the scanner on its own
MaxFeed == 3

\* start tags of an index page in a run of the pipeline
MaxTags == 2

\* bytes of a response body
MaxBody == 2

\* zero-length chunks delivered in one download
MaxEmpty == 1

----------------------------------------------------------------------------
(* Strings *)

NoneVal == <<"None">>

S_empty == <<>>
S_a_xml == <<"a", ".", "x", "m", "l">>
S_b_xml == <<"b", ".", "x", "m", "l">>
S_x_a_xml == <<"x", "/", "a", ".", "x", "m", "l">>
S_abs_a_xml == <<"/", "a", ".", "x", "m", "l">>
S_a_XML == <<"a", ".", "X", "M", "L">>
S_b_txt == <<"b", ".", "t", "x", "t">>
S_xml == <<"x", "m", "l">>
S_href == <<"h", "r", "e", "f">>
S_id == <<"i", "d">>
S_dot_xml == <<".", "x", "m", "l">>
S_scheme == <<"h", ":", "/", "/">>
S_host == <<"h", ":", "/", "/", "s">>

destination == <<"d">>

\* str.endswith
EndsWith(s, suffix) ==
    /\ Len(s) >= Len(suffix)
    /\ SubSeq(s, Len(s) - Len(suffix) + 1, Len(s)) = suffix

\* str.startswith
StartsWith(s, prefix) ==
    /\ Len(s) >= Len(prefix)
    /\ SubSeq(s, 1, Len(prefix)) = prefix

\* str.rstrip('/')
RECURSIVE RStrip(_)
RStrip(s) ==
    IF s # <<>> /\ s[Len(s)] = "/"
    THEN RStrip(SubSeq(s, 1, Len(s) - 1))
    ELSE s

\* os.path.join(a, b) of posixpath
PathJoin(a, b) ==
    IF StartsWith(b, <<"/">>) THEN b
    ELSE IF a = <<>> \/ EndsWith(a, <<"/">>) THEN a \o b
    ELSE a \o <<"/">> \o b

\* p.rfind('/') + 1
RECURSIVE RFindSlash(_, _)
RFindSlash(p, n) ==
    IF n = 0 THEN 0
    ELSE IF p[n] = "/" THEN n
    ELSE RFindSlash(p, n - 1)

\* the directories of the href kept
Basename_keep_dirs(p) == p

\* os.path.basename(p) of posixpath
Basename(p) == SubSeq(p, RFindSlash(p, Len(p)) + 1, Len(p))

\* dict(attrs).get(key): the last pair of a repeated key wins
RECURSIVE DictGet(_, _)
DictGet(attrs, key) ==
    IF attrs = <<>> THEN NoneVal
    ELSE IF attrs[Len(attrs)][1] = key THEN attrs[Len(attrs)][2]
    ELSE DictGet(SubSeq(attrs, 1, Len(attrs) - 1), key)

\* truth value of an Optional[str]
Truthy(v) == v # NoneVal /\ v # <<>>

----------------------------------------------------------------------------
(* MyHTMLParser *)

\* the test of the tag name left out
handle_starttag_any_tag(files, tag, attrs) ==
    LET href == DictGet(attrs, S_href)
    IN  IF Truthy(href) /\ EndsWith(href, S_dot_xml)
        THEN Append(files, href)
        ELSE files

handle_starttag(files, tag, attrs) ==
    IF tag = "a"
    THEN LET href == DictGet(attrs, S_href)
         IN  IF Truthy(href) /\ EndsWith(href, S_dot_xml)
             THEN Append(files, href)
             ELSE files
    ELSE files

\* parser.feed(text): one handle_starttag call per start tag, in order
RECURSIVE Feed(_, _)
Feed(files, tags) ==
    IF tags = <<>> THEN files
    ELSE Feed(handle_starttag(files, tags[1].tag, tags[1].attrs), Tail(tags))

----------------------------------------------------------------------------
(* Documents *)

Bytes == {"e", "u"}

SeqsUpTo(S, n) == UNION {[1..k -> S] : k \in 0..n}

\* open(file_path, 'r').read() raises UnicodeDecodeError on an invalid byte
Decodable(content) == \A k \in DOMAIN content : content[k] # "u"

\* ElementTree.fromstring(text) returns a tree exactly when the text is one
\* element: it raises ParseError for the empty text ("no element found") and
\* for a second element after the root ("junk after document element")
WellFormed(text) == Len(text) = 1 /\ text[1] = "e"

\* tree.iter(): every element, in document order
Elements(text) == SelectSeq(text, LAMBDA b : b = "e")

\* tree.findall('.//...', namespaces): the text of each matching leaf below
\* the root, in document order (a well-formed document of this model has no
\* element below its root)
DataTypes(text) == Tail(Elements(text))

\* xml_content[:n]
Slice(text, n) == SubSeq(text, 1, IF Len(text) < n THEN Len(text) ELSE n)

PreviewLen == 500

Line(kind, arg) == [kind |-> kind, arg |-> arg]

Event(ev, link, info) == [ev |-> ev, link |-> link, info |-> info]

RECURSIVE TagLines(_)
TagLines(elems) ==
    IF elems = <<>> THEN <<>>
    ELSE <<Line("tag", <<elems[1]>>)>> \o TagLines(Tail(elems))

----------------------------------------------------------------------------
(* The inputs of a run *)

Bases == {S_empty, <<"/">>, S_host \o <<"/">>}

StatusOK == 200

Statuses == {StatusOK, 404}

Bodies == SeqsUpTo(Bytes, MaxBody)

Anchor(href) == [tag |-> "a", attrs |-> <<<<S_href, href>>>>]

PageTags == {Anchor(h) : h \in {S_a_xml, S_b_xml, S_x_a_xml, S_abs_a_xml}}

Pages == SeqsUpTo(PageTags, MaxTags)

ScanHrefs == {S_a_xml, S_x_a_xml, S_a_XML, S_b_txt, S_xml, S_empty, NoneVal}

ScanAttrs ==
    {<<>>, <<<<S_id, S_a_xml>>>>,
     <<<<S_href, S_a_xml>>, <<S_href, S_b_txt>>>>,
     <<<<S_href, S_b_txt>>, <<S_href, S_a_xml>>>>,
     <<<<S_href, S_a_xml>>, <<S_id, S_b_txt>>>>}
    \cup {<<<<S_href, h>>>> : h \in ScanHrefs}

ScanTags == {[tag |-> t, attrs |-> a] : t \in {"a", "p"}, a \in ScanAttrs}

EmptyDisk == [p \in {} |-> <<>>]

OldFile == <<"e", "e", "e", "e">>

OldDisk == [p \in {PathJoin(destination, S_a_xml)} |-> OldFile]

NoResp == [rest |-> <<>>, empties |-> 0]

\* requests.get raises MissingSchema for an address without a scheme
HasScheme(addr) == StartsWith(addr, S_scheme)

----------------------------------------------------------------------------
(* The state after argument parsing *)

Init ==
    /\ pc = "main"
    /\ erddap \in Bases
    /\ dest_exists \in BOOLEAN
    /\ disk \in (IF dest_exists THEN {EmptyDisk, OldDisk} ELSE {EmptyDisk})
    /\ url = <<>>
    /\ fed = <<>>
    /\ xml_files = <<>>
    /\ i = 0
    /\ resp = NoResp
    /\ handle = {}
    /\ file_name = <<>>
    /\ body = <<>>
    /\ xml_content = <<>>
    /\ ret = <<>>
    /\ out = <<>>
    /\ gets = <<>>
    /\ trace = <<>>
    /\ snap = disk
    /\ error = ""

\* an uncaught exception ends the run
Raise(exc) ==
    /\ pc' = "aborted"
    /\ error' = exc

----------------------------------------------------------------------------
(* main and check_destination *)

check_destination ==
    /\ pc = "main"
    /\ dest_exists' = TRUE
    /\ pc' = IF erddap # <<>> THEN "index_get" ELSE "done"
    /\ UNCHANGED <<erddap, url, fed, xml_files, i, resp, disk, handle,
                   file_name, body, xml_content, ret, out, gets, trace, snap,
                   error>>

----------------------------------------------------------------------------
(* get_erddap_metadata: the index page *)

\* requests.get(url) rejects the address
IndexGetInvalid ==
    /\ pc = "index_get"
    /\ ~HasScheme(RStrip(erddap))
    /\ url' = RStrip(erddap)
    /\ gets' = Append(gets, url')
    /\ snap' = disk
    /\ trace' = Append(trace, Event("get", 0, "invalid"))
    /\ Raise("MissingSchema")
    /\ UNCHANGED <<erddap, dest_exists, fed, xml_files, i, resp, disk, handle,
                   file_name, body, xml_content, ret, out>>

\* requests.get(url) answers with a status other than 200
IndexGetFail(status) ==
    /\ pc = "index_get"
    /\ HasScheme(RStrip(erddap))
    /\ status # StatusOK
    /\ url' = RStrip(erddap)
    /\ gets' = Append(gets, url')
    /\ snap' = disk
    /\ trace' = Append(trace, Event("get", 0, "fail"))
    /\ Raise("FetchError")
    /\ UNCHANGED <<erddap, dest_exists, fed, xml_files, i, resp, disk, handle,
                   file_name, body, xml_content, ret, out>>

\* requests.get(url) answers 200 with the index page
IndexGetOk(page) ==
    /\ pc = "index_get"
    /\ HasScheme(RStrip(erddap))
    /\ url' = RStrip(erddap)
    /\ gets' = Append(gets, url')
    /\ snap' = disk
    /\ trace' = Append(trace, Event("get", 0, "ok"))
    /\ fed' = page
    /\ pc' = "scan"
    /\ UNCHANGED <<erddap, dest_exists, xml_files, i, resp, disk, handle,
                   file_name, body, xml_content, ret, out, error>>

\* parser = MyHTMLParser(); parser.feed(response.text)
Scan ==
    /\ pc = "scan"
    /\ xml_files' = Feed(<<>>, fed)
    /\ i' = 1
    /\ trace' = Append(trace, Event("scan", 0, "ok"))
    /\ pc' = "link_get"
    /\ UNCHANGED <<erddap, dest_exists, url, fed, resp, disk, handle,
                   file_name, body, xml_content, ret, out, gets, snap, error>>

----------------------------------------------------------------------------
(* get_erddap_metadata: the loop over parser.xml_files, and download_file *)

\* the file opened for appending instead
Truncated_append(d, path) ==
    [p \in DOMAIN d \cup {path} |-> IF p \in DOMAIN d THEN d[p] ELSE <<>>]

\* open(file_path, 'wb'): the file is created, or truncated when it exists
Truncated(d, path) == [p \in DOMAIN d \cup {path} |-> IF p = path THEN <<>> ELSE d[p]]

\* f.write(chunk); f.flush() for a chunk of n bytes
Written(d, path, chunk) == [d EXCEPT ![path] = @ \o chunk]

\* the file object left open
Closed_leak(h, path) == h

\* the with statement closes the file when the block is left
Closed(h, path) == h \ {path}

FileUrl == PathJoin(url, xml_files[i])

FilePath == PathJoin(destination, file_name)

LoopExit ==
    /\ pc = "link_get"
    /\ i > Len(xml_files)
    /\ pc' = "done"
    /\ UNCHANGED <<erddap, dest_exists, url, fed, xml_files, i, resp, disk,
                   handle, file_name, body, xml_content, ret, out, gets,
                   trace, snap, error>>

LinkGetInvalid ==
    /\ pc = "link_get"
    /\ i <= Len(xml_files)
    /\ ~HasScheme(FileUrl)
    /\ file_name' = Basename(xml_files[i])
    /\ gets' = Append(gets, FileUrl)
    /\ snap' = disk
    /\ trace' = Append(trace, Event("get", i, "invalid"))
    /\ Raise("MissingSchema")
    /\ UNCHANGED <<erddap, dest_exists, url, fed, xml_files, i, resp, disk,
                   handle, body, xml_content, ret, out>>

\* the failed link skipped and the loop continued
LinkGetFail_skip(status) ==
    /\ pc = "link_get"
    /\ i <= Len(xml_files)
    /\ HasScheme(FileUrl)
    /\ status # StatusOK
    /\ file_name' = Basename(xml_files[i])
    /\ gets' = Append(gets, FileUrl)
    /\ snap' = disk
    /\ trace' = Append(trace, Event("get", i, "fail"))
    /\ i' = i + 1
    /\ UNCHANGED <<pc, erddap, dest_exists, url, fed, xml_files, resp, disk,
                   handle, body, xml_content, ret, out, error>>

\* the failed request issued again
LinkGetFail_retry(status) ==
    /\ pc = "link_get"
    /\ i <= Len(xml_files)
    /\ HasScheme(FileUrl)
    /\ status # StatusOK
    /\ file_name' = Basename(xml_files[i])
    /\ gets' = Append(gets, FileUrl)
    /\ snap' = disk
    /\ trace' = Append(trace, Event("get", i, "fail"))
    /\ UNCHANGED <<pc, erddap, dest_exists, url, fed, xml_files, i, resp,
                   disk, handle, body, xml_content, ret, out, error>>

\* the destination file opened before the status is looked at
LinkGetFail_open_first(status) ==
    /\ pc = "link_get"
    /\ i <= Len(xml_files)
    /\ HasScheme(FileUrl)
    /\ status # StatusOK
    /\ file_name' = Basename(xml_files[i])
    /\ gets' = Append(gets, FileUrl)
    /\ snap' = disk
    /\ disk' = Truncated(disk, PathJoin(destination, file_name'))
    /\ trace' = Append(trace, Event("get", i, "fail"))
    /\ Raise("FetchError")
    /\ UNCHANGED <<erddap, dest_exists, url, fed, xml_files, i, resp,
                   handle, body, xml_content, ret, out>>

LinkGetFail(status) ==
    /\ pc = "link_get"
    /\ i <= Len(xml_files)
    /\ HasScheme(FileUrl)
    /\ status # StatusOK
    /\ file_name' = Basename(xml_files[i])
    /\ gets' = Append(gets, FileUrl)
    /\ snap' = disk
    /\ trace' = Append(trace, Event("get", i, "fail"))
    /\ Raise("FetchError")
    /\ UNCHANGED <<erddap, dest_exists, url, fed, xml_files, i, resp, disk,
                   handle, body, xml_content, ret, out>>

LinkGetOk(b) ==
    /\ pc = "link_get"
    /\ i <= Len(xml_files)
    /\ HasScheme(FileUrl)
    /\ file_name' = Basename(xml_files[i])
    /\ gets' = Append(gets, FileUrl)
    /\ snap' = disk
    /\ trace' = Append(trace, Event("get", i, "ok"))
    /\ body' = b
    /\ resp' = [rest |-> b, empties |-> 0]
    /\ pc' = "open"
    /\ UNCHANGED <<erddap, dest_exists, url, fed, xml_files, i, disk, handle,
                   xml_content, ret, out, error>>

OpenFile ==
    /\ pc = "open"
    /\ disk' = Truncated(disk, FilePath)
    /\ handle' = handle \cup {FilePath}
    /\ trace' = Append(trace, Event("open", i, "ok"))
    /\ pc' = "write"
    /\ UNCHANGED <<erddap, dest_exists, url, fed, xml_files, i, resp,
                   file_name, body, xml_content, ret, out, gets, snap, error>>

WriteChunk(n) ==
    /\ pc = "write"
    /\ n \in 1..Len(resp.rest)
    /\ disk' = Written(disk, FilePath, SubSeq(resp.rest, 1, n))
    /\ resp' = [resp EXCEPT !.rest = SubSeq(@, n + 1, Len(@))]
    /\ UNCHANGED <<pc, erddap, dest_exists, url, fed, xml_files, i, handle,
                   file_name, body, xml_content, ret, out, gets, trace, snap,
                   error>>

\* f.write(chunk) raises for a chunk of n bytes: the with statement closes
\* the file and the exception leaves download_file
WriteFail(n) ==
    /\ pc = "write"
    /\ n \in 1..Len(resp.rest)
    /\ handle' = Closed(handle, FilePath)
    /\ trace' = Append(trace, Event("write_error", i, "fail"))
    /\ Raise("WriteError")
    /\ UNCHANGED <<erddap, dest_exists, url, fed, xml_files, i, resp, disk,
                   file_name, body, xml_content, ret, out, gets, snap>>

\* a zero-length chunk fails the test "if chunk"
SkipEmptyChunk ==
    /\ pc = "write"
    /\ resp.empties < MaxEmpty
    /\ resp' = [resp EXCEPT !.empties = @ + 1]
    /\ UNCHANGED <<pc, erddap, dest_exists, url, fed, xml_files, i, disk,
                   handle, file_name, body, xml_content, ret, out, gets,
                   trace, snap, error>>

\* iter_content is exhausted: the file is closed and the function returns
FinishDownload ==
    /\ pc = "write"
    /\ resp.rest = <<>>
    /\ handle' = Closed(handle, FilePath)
    /\ out' = Append(out, Line("downloaded", FilePath))
    /\ ret' = <<>>
    /\ resp' = NoResp
    /\ trace' = Append(trace, Event("close", i, "ok"))
    /\ pc' = "announce"
    /\ UNCHANGED <<erddap, dest_exists, url, fed, xml_files, i, disk,
                   file_name, body, xml_content, gets, snap, error>>

\* the base address announced instead of the address of the file
Announce_base ==
    /\ pc = "announce"
    /\ out' = Append(out, Line("found", url))
    /\ trace' = Append(trace, Event("announce", i, "ok"))
    /\ pc' = "read"
    /\ UNCHANGED <<erddap, dest_exists, url, fed, xml_files, i, resp, disk,
                   handle, file_name, body, xml_content, ret, gets, snap,
                   error>>

\* print(f"Found XML file: {file_url}")
Announce ==
    /\ pc = "announce"
    /\ out' = Append(out, Line("found", FileUrl))
    /\ trace' = Append(trace, Event("announce", i, "ok"))
    /\ pc' = "read"
    /\ UNCHANGED <<erddap, dest_exists, url, fed, xml_files, i, resp, disk,
                   handle, file_name, body, xml_content, ret, gets, snap,
                   error>>

----------------------------------------------------------------------------
(* print_xml_metadata *)

ReadFail ==
    /\ pc = "read"
    /\ ~Decodable(disk[FilePath])
    /\ trace' = Append(trace, Event("read", i, "fail"))
    /\ Raise("UnicodeDecodeError")
    /\ UNCHANGED <<erddap, dest_exists, url, fed, xml_files, i, resp, disk,
                   handle, file_name, body, xml_content, ret, out, gets, snap>>

ReadMetadata ==
    /\ pc = "read"
    /\ Decodable(disk[FilePath])
    /\ xml_content' = disk[FilePath]
    /\ out' = out \o <<Line("metadata", FilePath),
                       Line("preview", Slice(xml_content', PreviewLen))>>
    /\ trace' = Append(trace, Event("read", i, "ok"))
    /\ pc' = "pass1"
    /\ UNCHANGED <<erddap, dest_exists, url, fed, xml_files, i, resp, disk,
                   handle, file_name, body, ret, gets, snap, error>>

\* what print_xml_data_types prints
DataTypeLines(text) ==
    IF WellFormed(text)
    THEN IF DataTypes(text) # <<>>
         THEN <<Line("data_types", DataTypes(text))>>
         ELSE <<Line("no_data_types", <<>>)>>
    ELSE <<Line("parse_failed", <<>>)>>

\* the ParseError of the targeted lookup left uncaught
print_xml_data_types_uncaught ==
    /\ pc = "pass1"
    /\ IF WellFormed(xml_content)
       THEN /\ out' = out \o DataTypeLines(xml_content)
            /\ trace' = Append(trace, Event("pass1", i, "ok"))
            /\ pc' = "pass2"
            /\ error' = error
       ELSE /\ out' = out
            /\ trace' = Append(trace, Event("pass1", i, "fail"))
            /\ Raise("ParseError")
    /\ UNCHANGED <<erddap, dest_exists, url, fed, xml_files, i, resp, disk,
                   handle, file_name, body, xml_content, ret, gets, snap>>

print_xml_data_types ==
    /\ pc = "pass1"
    /\ out' = out \o DataTypeLines(xml_content)
    /\ trace' = Append(trace, Event("pass1", i,
                       IF WellFormed(xml_content) THEN "ok" ELSE "fail"))
    /\ pc' = "pass2"
    /\ UNCHANGED <<erddap, dest_exists, url, fed, xml_files, i, resp, disk,
                   handle, file_name, body, xml_content, ret, gets, snap,
                   error>>

\* what print_all_elements prints
ElementLines(text) ==
    IF WellFormed(text)
    THEN TagLines(Elements(text))
    ELSE <<Line("parse_failed", <<>>)>>

print_all_elements ==
    /\ pc = "pass2"
    /\ out' = out \o ElementLines(xml_content)
    /\ trace' = Append(trace, Event("pass2", i,
                       IF WellFormed(xml_content) THEN "ok" ELSE "fail"))
    /\ i' = i + 1
    /\ pc' = "link_get"
    /\ UNCHANGED <<erddap, dest_exists, url, fed, xml_files, resp, disk,
                   handle, file_name, body, xml_content, ret, gets, snap,
                   error>>

----------------------------------------------------------------------------

Next ==
    \/ check_destination
    \/ IndexGetInvalid
    \/ \E status \in Statuses : IndexGetFail(status)
    \/ \E page \in Pages : IndexGetOk(page)
    \/ Scan
    \/ LoopExit
    \/ LinkGetInvalid
    \/ \E status \in Statuses : LinkGetFail(status)
    \/ \E b \in Bodies : LinkGetOk(b)
    \/ OpenFile
    \/ \E n \in 1..MaxBody : WriteChunk(n)
    \/ \E n \in 1..MaxBody : WriteFail(n)
    \/ SkipEmptyChunk
    \/ FinishDownload
    \/ Announce
    \/ ReadFail
    \/ ReadMetadata
    \/ print_xml_data_types
    \/ print_all_elements

Spec == Init /\ [][Next]_vars

----------------------------------------------------------------------------
(* The index scanner on its own: any start tags, fed one at a time *)

InitScan ==
    /\ pc = "feed"
    /\ erddap = S_host
    /\ dest_exists = TRUE
    /\ disk = EmptyDisk
    /\ url = <<>>
    /\ fed = <<>>
    /\ xml_files = <<>>
    /\ i = 0
    /\ resp = NoResp
    /\ handle = {}
    /\ file_name = <<>>
    /\ body = <<>>
    /\ xml_content = <<>>
    /\ ret = <<>>
    /\ out = <<>>
    /\ gets = <<>>
    /\ trace = <<>>
    /\ snap = disk
    /\ error = ""

HandleStartTag(t) ==
    /\ pc = "feed"
    /\ Len(fed) < MaxFeed
    /\ fed' = Append(fed, t)
    /\ xml_files' = handle_starttag(xml_files, t.tag, t.attrs)
    /\ UNCHANGED <<pc, erddap, dest_exists, url, i, resp, disk, handle,
                   file_name, body, xml_content, ret, out, gets, trace, snap,
                   error>>

NextScan == \E t \in ScanTags : HandleStartTag(t)

SpecScan == InitScan /\ [][NextScan]_vars

----------------------------------------------------------------------------
(* Properties *)

Last(seq) == seq[Len(seq)]

Positions(seq, Test(_)) == {k \in DOMAIN seq : Test(seq[k])}

IsGet(e) == e.ev = "get"

IsLinkGetFail(e) == e.ev = "get" /\ e.link >= 1 /\ e.info = "fail"

IsGetFail(e) == e.ev = "get" /\ e.info = "fail"

\* the href of a start tag: the value of its last href attribute, if any
HasHref(t) == \E k \in DOMAIN t.attrs : t.attrs[k][1] = S_href

HrefOf(t) ==
    LET k == CHOOSE m \in DOMAIN t.attrs :
                 /\ t.attrs[m][1] = S_href
                 /\ \A n \in DOMAIN t.attrs : n > m => t.attrs[n][1] # S_href
    IN  t.attrs[k][2]

EndsInDotXml(h) ==
    /\ Len(h) >= 4
    /\ h[Len(h) - 3] = "."
    /\ h[Len(h) - 2] = "x"
    /\ h[Len(h) - 1] = "m"
    /\ h[Len(h)] = "l"

Qualifies(t) ==
    /\ t.tag = "a"
    /\ HasHref(t)
    /\ HrefOf(t) # NoneVal
    /\ HrefOf(t) # <<>>
    /\ EndsInDotXml(HrefOf(t))

QualifyingHrefs(tags) ==
    LET q == SelectSeq(tags, Qualifies)
    IN  [k \in 1..Len(q) |-> HrefOf(q[k])]

\* C3: the link list is exactly the hrefs of the anchor tags fed so far whose
\* href is present, non-empty and ends with ".xml", in the order fed and with
\* duplicates kept; tags other than anchors add nothing.
C3_LinkListIsQualifyingSubsequence == xml_files = QualifyingHrefs(fed)

\* a non-anchor tag with a qualifying href was skipped and a duplicate was kept
C3_Witness ==
    /\ pc = "feed"
    /\ Len(fed) = 3
    /\ \E k \in DOMAIN fed : fed[k].tag = "p" /\ HasHref(fed[k]) /\ HrefOf(fed[k]) = S_a_xml
    /\ xml_files = <<S_a_xml, S_a_xml>>

\* C1: once the index request or the request for a link has been answered
\* with a status other than 200 the run is aborted with a fetch error at that
\* point: nothing happens after that request (no later request, no file
\* opened or written), and the files that were on disk are still there with
\* the same content.
C1_FetchFailureAborts ==
    \A k \in Positions(trace, IsGetFail) :
        /\ k = Len(trace)
        /\ pc = "aborted"
        /\ error = "FetchError"
        /\ Len(gets) = trace[k].link + 1
        /\ handle = {}
        /\ \A p \in DOMAIN snap : p \in DOMAIN disk /\ disk[p] = snap[p]

\* the request for the second link is refused after the first link was written
C1_Witness ==
    /\ pc = "aborted"
    /\ error = "FetchError"
    /\ Len(gets) = 3
    /\ \E p \in DOMAIN disk : disk[p] # <<>>

\* C10: when the request for a linked file is answered with a status other
\* than 200, the destination directory is exactly as it was before the
\* request: no file was created or truncated, and no file was opened for the
\* link.
C10_FailedDownloadLeavesDisk ==
    \A k \in Positions(trace, IsLinkGetFail) :
        /\ disk = snap
        /\ DOMAIN disk = DOMAIN snap
        /\ \A m \in DOMAIN trace :
               ~(trace[m].ev = "open" /\ trace[m].link = trace[k].link)

\* the failed link maps to a file that an earlier link of the run wrote
C10_Witness ==
    /\ pc = "aborted"
    /\ error = "FetchError"
    /\ i = 2
    /\ FilePath \in DOMAIN disk
    /\ disk[FilePath] # <<>>
    /\ disk[FilePath] # OldFile

IsPassFail(e) == e.ev \in {"pass1", "pass2"} /\ e.info = "fail"

IsMalformedPreview(l) == l.kind = "preview" /\ ~WellFormed(l.arg)

IsParseFailed(l) == l.kind = "parse_failed"

\* C2: for a downloaded document whose text is malformed, each of the two
\* passes prints its own failure notice, the second pass is attempted after
\* the first has failed, the run is never ended by the parse error, and after
\* the second pass the loop is at the next link.
C2_ParseErrorsAreCaught ==
    /\ error # "ParseError"
    /\ \A k \in Positions(trace, IsPassFail) :
           /\ k = Len(trace) =>
                  /\ error = ""
                  /\ trace[k].ev = "pass1" => pc = "pass2"
                  /\ trace[k].ev = "pass2" => pc \in {"link_get", "done"}
                  /\ (trace[k].ev = "pass2" /\ pc = "done") => i > Len(xml_files)
                  /\ trace[k].ev = "pass2" => i = trace[k].link + 1
           /\ trace[k].ev = "pass2" =>
                  /\ k > 1
                  /\ trace[k - 1] = Event("pass1", trace[k].link, "fail")
           /\ (trace[k].ev = "pass1" /\ k < Len(trace)) =>
                  trace[k + 1] = Event("pass2", trace[k].link, "fail")
    /\ Cardinality(Positions(out, IsParseFailed))
         = 2 * Cardinality(Positions(out, IsMalformedPreview))
           - (IF pc = "pass1" /\ ~WellFormed(xml_content) THEN 2 ELSE 0)
           - (IF pc = "pass2" /\ ~WellFormed(xml_content) THEN 1 ELSE 0)

\* after both passes failed on one link the next link was requested
C2_Witness ==
    \E k \in 1..(Len(trace) - 1) :
        /\ trace[k] = Event("pass2", 1, "fail")
        /\ trace[k + 1].ev = "get"
        /\ trace[k + 1].link = 2
        /\ Cardinality(Positions(out, IsParseFailed)) >= 2

C5_FileAddressExtendsBase ==
    \A n \in DOMAIN gets :
        /\ gets[n] = RStrip(erddap)
        \/ /\ n > 1
           /\ gets[n] = RStrip(erddap) \o <<"/">> \o xml_files[n - 1]

IsDownloaded(l) == l.kind = "downloaded"

IsFound(l) == l.kind = "found"

\* the local paths of the completed downloads, one per link, in order
DownloadedPaths == SelectSeq(out, IsDownloaded)

\* C6 as stated: two downloads of one run write the same local path only when
\* their hrefs are identical.
C6_DistinctHrefsDistinctFiles ==
    LET paths == DownloadedPaths
    IN  \A j, k \in DOMAIN paths :
            paths[j].arg = paths[k].arg => xml_files[j] = xml_files[k]

\* where the part of href after its last "/" begins: no "/" from there on,
\* and a "/" right before it unless it is the whole href
SegmentStart(href) ==
    CHOOSE n \in 1..(Len(href) + 1) :
        /\ \A m \in n..Len(href) : href[m] # "/"
        /\ n > 1 => href[n - 1] = "/"

LastSegment(href) == SubSeq(href, SegmentStart(href), Len(href))

\* C6: each downloaded link is written to the destination directory under
\* the last path segment of its href, and two downloads write the same local
\* path exactly when their hrefs have the same last path segment.
C6_FileNameIsLastSegment ==
    LET paths == DownloadedPaths
        segs == [j \in DOMAIN paths |-> LastSegment(xml_files[j])]
    IN  /\ \A j \in DOMAIN paths :
               /\ paths[j].arg \in DOMAIN disk
               /\ paths[j].arg = destination \o <<"/">> \o segs[j]
        /\ \A j, k \in DOMAIN paths :
               paths[j].arg = paths[k].arg <=> segs[j] = segs[k]

\* two links with different hrefs were written to the same local path
C6_Witness ==
    /\ Len(DownloadedPaths) = 2
    /\ DownloadedPaths[1].arg = DownloadedPaths[2].arg
    /\ xml_files[1] # xml_files[2]

Finished == pc \in {"done", "aborted"}

IsAnsweredLinkGet(e) == e.ev = "get" /\ e.link >= 1 /\ e.info # "invalid"

IsClose(e) == e.ev = "close"

\* C7 as stated: at the end of a run every link whose request was answered
\* has a line announcing its remote address, and every link whose download
\* succeeded also has a line naming its local path.
C7_EveryRequestedLinkAnnounced ==
    Finished =>
        \A k \in Positions(trace, IsAnsweredLinkGet) :
            /\ \E m \in DOMAIN out : out[m] = Line("found", gets[trace[k].link + 1])
            /\ (\E c \in Positions(trace, IsClose) : trace[c].link = trace[k].link)
                   => \E m \in DOMAIN out : out[m].kind = "downloaded"

FoundLines == SelectSeq(out, IsFound)

\* C7: every link whose download succeeded has one line naming its local
\* path and, right after it, one line announcing the address it was requested
\* from; a link whose download did not succeed has neither line.
C7_AnnouncedAfterSuccessfulDownload ==
    LET paths == DownloadedPaths
        found == FoundLines
    IN  /\ Len(paths) = Cardinality(Positions(trace, IsClose))
        /\ Len(found) = Len(paths) - (IF pc = "announce" THEN 1 ELSE 0)
        /\ \A j \in DOMAIN found : found[j].arg = gets[j + 1]
        /\ \A m \in DOMAIN out :
               /\ (out[m].kind = "downloaded" /\ (m < Len(out) \/ pc # "announce")) =>
                      /\ m < Len(out)
                      /\ out[m + 1].kind = "found"
               /\ out[m].kind = "found" =>
                      /\ m > 1
                      /\ out[m - 1].kind = "downloaded"

\* the first link was downloaded and announced, the second was refused
C7_Witness ==
    /\ pc = "aborted"
    /\ error = "FetchError"
    /\ Len(gets) = 3
    /\ Len(FoundLines) = 1
    /\ Len(DownloadedPaths) = 1

Stage(e) ==
    CASE e.ev = "get" -> 1
      [] e.ev \in {"scan", "open"} -> 2
      [] e.ev \in {"close", "write_error"} -> 3
      [] e.ev = "announce" -> 4
      [] e.ev = "read" -> 5
      [] e.ev = "pass1" -> 6
      [] e.ev = "pass2" -> 7

\* C8: the index request comes first and the scan second; the steps of a link
\* follow each other in the order request, open, close, announce, read, first
\* pass, second pass; the request for a link comes right after the scan (the
\* first link) or the second pass of the link before it; the links are
\* requested in the order of the link list; no file is open during the
\* extraction; and no more than one request per link is made.
C8_StrictlySequential ==
    /\ \A k \in DOMAIN trace :
           /\ k = 1 => trace[k] \in {Event("get", 0, r) : r \in {"ok", "fail", "invalid"}}
           /\ trace[k].ev = "scan" => k = 2 /\ trace[1] = Event("get", 0, "ok")
           /\ (trace[k].link >= 1 /\ Stage(trace[k]) > 1) =>
                  /\ trace[k - 1].link = trace[k].link
                  /\ Stage(trace[k - 1]) = Stage(trace[k]) - 1
                  /\ trace[k - 1].ev # "pass1" => trace[k - 1].info = "ok"
           /\ (trace[k].ev = "get" /\ trace[k].link = 1) =>
                  trace[k - 1].ev = "scan"
           /\ (trace[k].ev = "get" /\ trace[k].link > 1) =>
                  /\ trace[k - 1].ev = "pass2"
                  /\ trace[k - 1].link = trace[k].link - 1
           /\ (trace[k].ev = "get" /\ trace[k].link >= 1) =>
                  /\ trace[k].link <= Len(xml_files)
                  /\ Len(gets) >= trace[k].link + 1
                  /\ EndsWith(gets[trace[k].link + 1], xml_files[trace[k].link])
    /\ Cardinality(Positions(trace, IsGet)) = Len(gets)
    /\ Len(gets) <= 1 + Len(xml_files)
    /\ pc \in {"announce", "read", "pass1", "pass2", "link_get"} => handle = {}

\* two links were processed to the end
C8_Witness ==
    /\ pc = "done"
    /\ Len(gets) = 3
    /\ Last(trace) \in {Event("pass2", 2, r) : r \in {"ok", "fail"}}

\* C9: when writing a chunk fails, the file object is closed, the run is
\* ended by the error with no extraction for the link and no later link
\* processed, and the file holds exactly the bytes of the chunks written
\* before the failure; a file object is open only while the chunks of a
\* download are being written.
C9_WriteErrorAbortsAndKeepsPartialFile ==
    /\ error = "WriteError" =>
           /\ pc = "aborted"
           /\ handle = {}
           /\ Last(trace) = Event("write_error", i, "fail")
           /\ Cardinality(Positions(trace, IsGet)) = i + 1
           /\ Len(resp.rest) >= 1
           /\ FilePath \in DOMAIN disk
           /\ disk[FilePath] = SubSeq(body, 1, Len(body) - Len(resp.rest))
    /\ (trace # <<>> /\ Last(trace).ev = "write_error") => error = "WriteError"
    /\ handle = (IF pc = "write" THEN {FilePath} ELSE {})

\* the second chunk of the first link failed and a second link was waiting
C9_Witness ==
    /\ error = "WriteError"
    /\ disk[FilePath] # <<>>
    /\ i = 1
    /\ Len(xml_files) = 2

====
